---- MODULE Spec2Model ----
(***************************************************************************)
(* Model of the trezor-link framing codec:                                 *)
(*   src/src/lowlevel/send.js  - BuiltMessage, buildBuffers, buildOne,     *)
(*                               buildAndSend, sendBuffers                 *)
(*   src/unnamed/part_000      - readHeader, readHeaderChunked, decode,    *)
(*                               decodeChunked                             *)
(* Byte buffers are sequences of integers in 0..255 (1-indexed); a         *)
(* ByteBuffer is a record of its backing buffer, its read/write offset     *)
(* and its limit.  A call's outcome is a record with kind "return" or      *)
(* kind "throw".                                                           *)
(***************************************************************************)
EXTENDS Integers, Sequences, FiniteSets, TLC

\* ------------------------------------------------------------------ bounds
MaxPayloadLen == 119
MaxRawLen == 10

\* --------------------------------------------------------------- constants
HEADER_SIZE == 1 + 1 + 4 + 2
MESSAGE_HEADER_BYTE == 35
BUFFER_SIZE == 63

\* the value of a missing property / table entry
Undefined == -1

\* ------------------------------------------------------------------ inputs
TypeIds == {0, 2, 4660, 65535}
Fills == {"const", "ramp"}
SentinelBytes == {35, 36, 0, 163, 255}
RawTypeIds == {1, 4660}
RawLengths == {5, 16909060}

Zeros(n) == [j \in 1..n |-> 0]

\* the serialized protobuf message, this.message.encodeAB()
encodeAB(len, fill) ==
  [j \in 1..len |-> IF fill = "const" THEN 170 ELSE (j * 7 + 1) % 256]

Schemas ==
  [known : {TRUE}, wire : TypeIds \cup {Undefined}, table : TypeIds \cup {Undefined}]
    \cup [known : {FALSE}, wire : {Undefined}, table : {Undefined}]

\* -------------------------------------------------------------- ByteBuffer
NewByteBuffer(capacity) ==
  [buffer |-> Zeros(capacity), offset |-> 0, limit |-> capacity, err |-> ""]

\* ByteBuffer.wrap / ByteBuffer.concat([data]): offset 0, limit = byte length
wrap(bytes) ==
  [buffer |-> bytes, offset |-> 0, limit |-> Len(bytes), err |-> ""]

\* a relative write of the bytes bs; the backing buffer grows when too small
Put(bb, bs) ==
  LET need == bb.offset + Len(bs)
      cap == Len(bb.buffer)
      newcap == IF need > cap THEN (IF cap * 2 > need THEN cap * 2 ELSE need) ELSE cap
  IN  IF bb.err # "" THEN bb
      ELSE [bb EXCEPT !.buffer = [j \in 1..newcap |->
                                    IF j > bb.offset /\ j <= need THEN bs[j - bb.offset]
                                    ELSE IF j <= cap THEN bb.buffer[j] ELSE 0],
                      !.offset = need]

writeByte(bb, value) == Put(bb, <<value % 256>>)

\* mutant: the two bytes in little-endian order
writeUint16_le(bb, value) ==
  IF bb.err # "" THEN bb
  ELSE IF value = Undefined THEN [bb EXCEPT !.err = "TypeError"]
  ELSE Put(bb, <<value % 256, (value \div 256) % 256>>)

\* big-endian; a value that is not an integer is rejected
writeUint16(bb, value) ==
  IF bb.err # "" THEN bb
  ELSE IF value = Undefined THEN [bb EXCEPT !.err = "TypeError"]
  ELSE Put(bb, <<(value \div 256) % 256, value % 256>>)

writeUint32(bb, value) ==
  IF bb.err # "" THEN bb
  ELSE IF value = Undefined THEN [bb EXCEPT !.err = "TypeError"]
  ELSE Put(bb, <<(value \div 16777216) % 256, (value \div 65536) % 256,
                 (value \div 256) % 256, value % 256>>)

append(bb, bytes) == Put(bb, bytes)

\* ------------------------------------------------------------ BuiltMessage
Throw(error, at) == [kind |-> "throw", error |-> error, at |-> at]
Return(value) == [kind |-> "return", value |-> value]

\* the type tag chosen by the constructor
messageType(schema) ==
  IF schema.wire # Undefined THEN schema.wire ELSE schema.table

\* constructor: fails only when the name has no Builder
BuiltMessage(schema, bytes) ==
  IF ~schema.known THEN Throw("NotFound", "constructor")
  ELSE Return([type |-> messageType(schema), bytes |-> bytes])

\* mutant: the short form sized like the long form
fullSizeOf_long(addTrezorHeaders, len) == HEADER_SIZE + len

fullSizeOf(addTrezorHeaders, len) ==
  (IF addTrezorHeaders THEN HEADER_SIZE ELSE (HEADER_SIZE - 2)) + len

_encodeLong(this, addTrezorHeaders) ==
  LET bytes == this.bytes
      b0 == NewByteBuffer(fullSizeOf(addTrezorHeaders, Len(bytes)))
      b1 == IF addTrezorHeaders
              THEN writeByte(writeByte(b0, MESSAGE_HEADER_BYTE), MESSAGE_HEADER_BYTE)
              ELSE b0
      b2 == writeUint16(b1, this.type)
      b3 == writeUint32(b2, Len(bytes))
      b4 == append(b3, bytes)
  IN  IF b4.err # "" THEN Throw(b4.err, "_encodeLong") ELSE Return(b4.buffer)

\* mutant: one chunk too many when the length is a multiple of the chunk size
chunkCount_floor(n) == (n \div BUFFER_SIZE) + 1

chunkCount(n) == ((n - 1) \div BUFFER_SIZE) + 1

\* bytes.subarray(begin, end), 0-based and clamped to the length
subarray(bytes, begin, end) ==
  LET e == IF end > Len(bytes) THEN Len(bytes) ELSE end
      b == IF begin > e THEN e ELSE begin
  IN  [j \in 1..(e - b) |-> bytes[b + j]]

\* new Uint8Array(size) followed by set(slice)
chunkOf(slice) ==
  [j \in 1..BUFFER_SIZE |-> IF j <= Len(slice) THEN slice[j] ELSE 0]

splitIntoChunks(bytes) ==
  [c \in 1..chunkCount(Len(bytes)) |->
     chunkOf(subarray(bytes, (c - 1) * BUFFER_SIZE, c * BUFFER_SIZE))]

encode(this) ==
  LET long == _encodeLong(this, TRUE)
  IN  IF long.kind = "throw" THEN long ELSE Return(splitIntoChunks(long.value))

encodeOne(this) == _encodeLong(this, FALSE)

buildBuffers(schema, bytes) ==
  LET message == BuiltMessage(schema, bytes)
  IN  IF message.kind = "throw" THEN message ELSE encode(message.value)

buildOne(schema, bytes) ==
  LET message == BuiltMessage(schema, bytes)
  IN  IF message.kind = "throw" THEN message ELSE encodeOne(message.value)

\* ------------------------------------------------------------------ reads
\* every read fails when it would pass the end of the backing buffer
readByte(bb) ==
  IF bb.offset + 1 > Len(bb.buffer) THEN [err |-> "RangeError", val |-> 0, bb |-> bb]
  ELSE LET b == bb.buffer[bb.offset + 1]
       IN  [err |-> "", val |-> IF b >= 128 THEN b - 256 ELSE b,
            bb |-> [bb EXCEPT !.offset = @ + 1]]

readUint16(bb) ==
  IF bb.offset + 2 > Len(bb.buffer) THEN [err |-> "RangeError", val |-> 0, bb |-> bb]
  ELSE [err |-> "",
        val |-> bb.buffer[bb.offset + 1] * 256 + bb.buffer[bb.offset + 2],
        bb |-> [bb EXCEPT !.offset = @ + 2]]

\* mutant: the four bytes in little-endian order
readUint32_le(bb) ==
  IF bb.offset + 4 > Len(bb.buffer) THEN [err |-> "RangeError", val |-> 0, bb |-> bb]
  ELSE [err |-> "",
        val |-> bb.buffer[bb.offset + 4] * 16777216 + bb.buffer[bb.offset + 3] * 65536
                  + bb.buffer[bb.offset + 2] * 256 + bb.buffer[bb.offset + 1],
        bb |-> [bb EXCEPT !.offset = @ + 4]]

readUint32(bb) ==
  IF bb.offset + 4 > Len(bb.buffer) THEN [err |-> "RangeError", val |-> 0, bb |-> bb]
  ELSE [err |-> "",
        val |-> bb.buffer[bb.offset + 1] * 16777216 + bb.buffer[bb.offset + 2] * 65536
                  + bb.buffer[bb.offset + 3] * 256 + bb.buffer[bb.offset + 4],
        bb |-> [bb EXCEPT !.offset = @ + 4]]

\* mutant: the whole backing buffer, whatever the offset
toBuffer_whole(bb) == bb.buffer

\* the bytes between offset and limit
toBuffer(bb) == subarray(bb.buffer, bb.offset, bb.limit)

\* mutant: a failed length read is ignored and the typeId alone is returned
readHeader_partial(buffer) ==
  LET t == readUint16(buffer)
      l == readUint32(t.bb)
  IN  IF t.err # "" THEN Throw(t.err, "readHeader")
      ELSE [kind |-> "return", value |-> [typeId |-> t.val, length |-> l.val], bb |-> l.bb]

readHeader(buffer) ==
  LET t == readUint16(buffer)
      l == readUint32(t.bb)
  IN  IF t.err # "" THEN Throw(t.err, "readHeader")
      ELSE IF l.err # "" THEN Throw(l.err, "readHeader")
      ELSE [kind |-> "return", value |-> [typeId |-> t.val, length |-> l.val], bb |-> l.bb]

readHeaderChunked(buffer) ==
  LET s1 == readByte(buffer)
      s2 == readByte(s1.bb)
      t == readUint16(s2.bb)
      l == readUint32(t.bb)
  IN  IF s1.err # "" THEN Throw(s1.err, "readHeaderChunked")
      ELSE IF s2.err # "" THEN Throw(s2.err, "readHeaderChunked")
      ELSE IF t.err # "" THEN Throw(t.err, "readHeaderChunked")
      ELSE IF l.err # "" THEN Throw(l.err, "readHeaderChunked")
      ELSE [kind |-> "return",
            value |-> [sharp1 |-> s1.val, sharp2 |-> s2.val, typeId |-> t.val, length |-> l.val],
            bb |-> l.bb]

decode(data) ==
  LET h == readHeader(wrap(data))
  IN  IF h.kind = "throw" THEN h
      ELSE Return([typeId |-> h.value.typeId, buffer |-> toBuffer(h.bb)])

\* mutant: only both sentinel bytes wrong is a mismatch
sentinelBad_both(sharp1, sharp2) ==
  sharp1 # MESSAGE_HEADER_BYTE /\ sharp2 # MESSAGE_HEADER_BYTE

sentinelBad(sharp1, sharp2) ==
  sharp1 # MESSAGE_HEADER_BYTE \/ sharp2 # MESSAGE_HEADER_BYTE

decodeChunked(bytes) ==
  LET h == readHeaderChunked(wrap(bytes))
  IN  IF h.kind = "throw" THEN h
      ELSE IF sentinelBad(h.value.sharp1, h.value.sharp2)
        THEN Throw("Didn't receive expected header signature.", "decodeChunked")
      ELSE Return([length |-> h.value.length, typeId |-> h.value.typeId, restBuffer |-> h.bb])

\* raw input from the transport: an 8-byte stream header and filler, cut at k
Raw(s0, s1, typeId, length, k) ==
  subarray(<<s0, s1, (typeId \div 256) % 256, typeId % 256,
             (length \div 16777216) % 256, (length \div 65536) % 256,
             (length \div 256) % 256, length % 256>> \o encodeAB(MaxRawLen, "ramp"), 0, k)

Raws ==
  {Raw(s0, s1, t, l, k) : s0 \in SentinelBytes, s1 \in SentinelBytes,
                          t \in RawTypeIds, l \in RawLengths, k \in 0..MaxRawLen}

\* ----------------------------------------------------------- state machine
VARIABLES pc, op, schema, bytes, ret, raw, dec, calls, settled, failAt, reason

vars == <<pc, op, schema, bytes, ret, raw, dec, calls, settled, failAt, reason>>

None == [kind |-> "none"]
NoSchema == [known |-> FALSE, wire |-> Undefined, table |-> Undefined]

MaxChunks == chunkCount(HEADER_SIZE + MaxPayloadLen)

Init ==
  /\ pc = "idle"
  /\ op = ""
  /\ schema = NoSchema
  /\ bytes = <<>>
  /\ ret = None
  /\ raw = <<>>
  /\ dec = None
  /\ calls = <<>>
  /\ settled = 0
  /\ failAt = 0
  /\ reason = None

BuildBuffers ==
  /\ pc = "idle"
  /\ \E s \in Schemas, len \in 0..MaxPayloadLen, fill \in Fills :
       /\ schema' = s
       /\ bytes' = encodeAB(len, fill)
       /\ ret' = buildBuffers(s, encodeAB(len, fill))
  /\ pc' = "built"
  /\ op' = "buildBuffers"
  /\ UNCHANGED <<raw, dec, calls, settled, failAt, reason>>

BuildOne ==
  /\ pc = "idle"
  /\ \E s \in Schemas, len \in 0..MaxPayloadLen, fill \in Fills :
       /\ schema' = s
       /\ bytes' = encodeAB(len, fill)
       /\ ret' = buildOne(s, encodeAB(len, fill))
  /\ pc' = "built"
  /\ op' = "buildOne"
  /\ UNCHANGED <<raw, dec, calls, settled, failAt, reason>>

\* mutant: every remaining buffer is handed to the sender without awaiting
sendStep_noAwait(buffers, sent) ==
  IF Len(sent) < Len(buffers)
    THEN [pc |-> "await", calls |-> [k \in 1..Len(buffers) |-> k]]
    ELSE [pc |-> "resolved", calls |-> sent]

\* sendBuffers up to its next await: the sender is invoked on the next
\* buffer, or the loop is over and the promise resolves
sendStep(buffers, sent) ==
  IF Len(sent) < Len(buffers)
    THEN [pc |-> "await", calls |-> Append(sent, Len(sent) + 1)]
    ELSE [pc |-> "resolved", calls |-> sent]

\* buildAndSend: the sender fails at its failAt-th invocation (0: never)
BuildAndSend ==
  /\ pc = "idle"
  /\ \E s \in Schemas, len \in 0..MaxPayloadLen, fill \in Fills, f \in 0..MaxChunks :
       LET r == buildBuffers(s, encodeAB(len, fill))
           st == sendStep(r.value, <<>>)
       IN  /\ schema' = s
           /\ bytes' = encodeAB(len, fill)
           /\ failAt' = f
           /\ ret' = r
           /\ IF r.kind = "throw"
                THEN /\ pc' = "rejected"
                     /\ reason' = r
                     /\ calls' = <<>>
                ELSE /\ pc' = st.pc
                     /\ calls' = st.calls
                     /\ reason' = None
  /\ op' = "buildAndSend"
  /\ UNCHANGED <<raw, dec, settled>>

\* the pending sender promise is fulfilled and sendBuffers continues
SenderResolves ==
  /\ pc = "await"
  /\ failAt # Len(calls)
  /\ settled' = settled + 1
  /\ LET st == sendStep(ret.value, calls)
     IN  /\ pc' = st.pc
         /\ calls' = st.calls
  /\ UNCHANGED <<op, schema, bytes, ret, raw, dec, failAt, reason>>

\* mutant: the rejection is swallowed and the loop goes on
SenderRejects_swallow ==
  /\ pc = "await"
  /\ failAt = Len(calls)
  /\ LET st == sendStep(ret.value, calls)
     IN  /\ pc' = st.pc
         /\ calls' = st.calls
  /\ UNCHANGED <<op, schema, bytes, ret, raw, dec, settled, failAt, reason>>

\* the pending sender promise is rejected: the await throws out of the loop
SenderRejects ==
  /\ pc = "await"
  /\ failAt = Len(calls)
  /\ pc' = "rejected"
  /\ reason' = Throw("SendError", Len(calls))
  /\ UNCHANGED <<op, schema, bytes, ret, raw, dec, calls, settled, failAt>>

\* decode / decodeChunked on raw bytes from the transport
Decode ==
  /\ pc = "idle"
  /\ \E data \in Raws :
       /\ raw' = data
       /\ dec' = decode(data)
  /\ pc' = "decoded"
  /\ op' = "decode"
  /\ UNCHANGED <<schema, bytes, ret, calls, settled, failAt, reason>>

DecodeChunked ==
  /\ pc = "idle"
  /\ \E data \in Raws :
       /\ raw' = data
       /\ dec' = decodeChunked(data)
  /\ pc' = "decoded"
  /\ op' = "decodeChunked"
  /\ UNCHANGED <<schema, bytes, ret, calls, settled, failAt, reason>>

\* decode on the buffer buildOne returned
DecodeOne ==
  /\ pc = "built"
  /\ op = "buildOne"
  /\ ret.kind = "return"
  /\ raw' = ret.value
  /\ dec' = decode(ret.value)
  /\ pc' = "decoded"
  /\ op' = "buildOne+decode"
  /\ UNCHANGED <<schema, bytes, ret, calls, settled, failAt, reason>>

\* decodeChunked on the first chunk buildBuffers returned
DecodeFirstChunk ==
  /\ pc = "built"
  /\ op = "buildBuffers"
  /\ ret.kind = "return"
  /\ Len(ret.value) >= 1
  /\ raw' = ret.value[1]
  /\ dec' = decodeChunked(ret.value[1])
  /\ pc' = "decoded"
  /\ op' = "buildBuffers+decodeChunked"
  /\ UNCHANGED <<schema, bytes, ret, calls, settled, failAt, reason>>

Next ==
  \/ BuildBuffers
  \/ BuildOne
  \/ BuildAndSend
  \/ SenderResolves
  \/ SenderRejects
  \/ Decode
  \/ DecodeChunked
  \/ DecodeOne
  \/ DecodeFirstChunk

Spec == Init /\ [][Next]_vars

FairSpec == Spec /\ WF_vars(SenderResolves) /\ WF_vars(SenderRejects)

\* ------------------------------------------------------------- properties
\* the BuiltMessage of the current call, and what it is expected to encode to
this == [type |-> messageType(schema), bytes |-> bytes]

Encoded(ops) == op \in ops /\ ret.kind = "return"

ExpectedHeader(addTrezorHeaders, typeId, length) ==
  (IF addTrezorHeaders THEN <<MESSAGE_HEADER_BYTE, MESSAGE_HEADER_BYTE>> ELSE <<>>)
    \o <<typeId \div 256, typeId % 256>>
    \o <<length \div 16777216, (length \div 65536) % 256, (length \div 256) % 256, length % 256>>

\* byte p (1-based) of the concatenation of the chunks
ChunkByte(chunks, p) ==
  chunks[((p - 1) \div BUFFER_SIZE) + 1][((p - 1) % BUFFER_SIZE) + 1]

\* C1: the chunks buildBuffers / buildAndSend obtain from the n > 0 serialized
\* bytes are exactly ceil(n / 63) chunks of exactly 63 bytes each, whose
\* concatenation equals the serialized bytes on positions 1..n and is zero on
\* every later position.
C1_ChunkSplit ==
  Encoded({"buildBuffers", "buildAndSend"}) =>
    LET long == _encodeLong(this, TRUE).value
        n == Len(long)
        chunks == ret.value
    IN  /\ n > 0
        /\ Len(chunks) * BUFFER_SIZE >= n
        /\ (Len(chunks) - 1) * BUFFER_SIZE < n
        /\ \A c \in 1..Len(chunks) : Len(chunks[c]) = BUFFER_SIZE
        /\ \A p \in 1..(Len(chunks) * BUFFER_SIZE) :
             ChunkByte(chunks, p) = IF p <= n THEN long[p] ELSE 0

\* the spec's example: 100 payload bytes give 2 chunks, the last 18 bytes zero
C1_Witness ==
  /\ Encoded({"buildBuffers"})
  /\ Len(bytes) = 100
  /\ Len(ret.value) = 2
  /\ \A j \in 46..63 : ret.value[2][j] = 0
  /\ ret.value[2][45] # 0

\* C2: reading the bare header from what buildOne returned (the short form)
\* yields exactly the typeId and the payload length, and the bytes after the
\* 6 header bytes are exactly the payload, also for an empty payload.
C2_ShortRoundTrip ==
  op = "buildOne+decode" =>
    LET h == readHeader(wrap(raw))
    IN  /\ h.kind = "return"
        /\ h.value = [typeId |-> this.type, length |-> Len(bytes)]
        /\ h.bb.offset = HEADER_SIZE - 2
        /\ subarray(raw, HEADER_SIZE - 2, Len(raw)) = bytes

C2_Witness ==
  /\ op = "buildOne+decode"
  /\ Len(bytes) = 0
  /\ this.type = 4660
  /\ dec.kind = "return"
  /\ dec.value.typeId = 4660

\* C3: _encodeLong yields exactly headerSize + payload length bytes (8 with the
\* sentinel, 6 without): the sentinel pair 0x23 0x23 when requested, the
\* typeId in 2 big-endian bytes, the payload length in 4 big-endian bytes,
\* then the payload verbatim.
C3_LongLayout ==
  /\ Encoded({"buildOne", "buildBuffers", "buildAndSend"}) =>
       \A h \in BOOLEAN :
         LET long == _encodeLong(this, h)
         IN  /\ long.kind = "return"
             /\ Len(long.value) = (IF h THEN 8 ELSE 6) + Len(bytes)
             /\ long.value = ExpectedHeader(h, this.type, Len(bytes)) \o bytes
  /\ Encoded({"buildOne"}) =>
       ret.value = ExpectedHeader(FALSE, this.type, Len(bytes)) \o bytes

\* the spec's example, typeId 2 and 100 payload bytes: 23 23 00 02 00 00 00 64
C3_Witness ==
  /\ Encoded({"buildOne"})
  /\ this.type = 2
  /\ Len(bytes) = 100
  /\ Len(ret.value) = 106
  /\ SubSeq(_encodeLong(this, TRUE).value, 1, 8) = <<35, 35, 0, 2, 0, 0, 0, 100>>

\* C4: on at least 8 bytes, decodeChunked throws the header-signature error,
\* returning nothing, when byte 0 or byte 1 is not 0x23, whatever the typeId
\* and length bytes; when both are 0x23 it returns.
SignatureError == Throw("Didn't receive expected header signature.", "decodeChunked")

C4_Sentinel ==
  (op = "decodeChunked" /\ Len(raw) >= HEADER_SIZE) =>
    IF raw[1] # 35 \/ raw[2] # 35
      THEN dec = SignatureError
      ELSE dec.kind = "return"

\* the spec's example 23 24 00 01 00 00 00 05
C4_Witness ==
  /\ op = "decodeChunked"
  /\ Len(raw) >= HEADER_SIZE
  /\ SubSeq(raw, 1, 8) = <<35, 36, 0, 1, 0, 0, 0, 5>>
  /\ dec = SignatureError

\* C5 as stated: decode returns the typeId of the first two bytes together
\* with the unmodified input buffer, header included.
C5_DecodeKeepsBuffer ==
  (op \in {"decode", "buildOne+decode"} /\ dec.kind = "return") =>
    /\ dec.value.typeId = raw[1] * 256 + raw[2]
    /\ dec.value.buffer = raw

\* C5 amended: decode returns the typeId of the first two bytes together with
\* the input bytes that follow the 6-byte header; the header is consumed.
C5_DecodeStripsHeader ==
  (op \in {"decode", "buildOne+decode"} /\ dec.kind = "return") =>
    /\ dec.value.typeId = raw[1] * 256 + raw[2]
    /\ Len(dec.value.buffer) = Len(raw) - 6
    /\ \A j \in 1..(Len(raw) - 6) : dec.value.buffer[j] = raw[j + 6]

C5_Witness ==
  /\ op = "decode"
  /\ dec.kind = "return"
  /\ Len(raw) = 10
  /\ Len(dec.value.buffer) = 4

\* C6: buildAndSend invokes the sender once per chunk in ascending order,
\* never starting an invocation before the previous one's promise was
\* fulfilled; when the sender never fails the operation eventually resolves,
\* with every chunk sent.
SendOrder ==
  Encoded({"buildAndSend"}) =>
    /\ Len(calls) <= Len(ret.value)
    /\ \A k \in 1..Len(calls) : calls[k] = k
    /\ Len(calls) <= settled + 1
    /\ pc = "resolved" => (Len(calls) = Len(ret.value) /\ settled = Len(ret.value))

SenderNeverFails == failAt \notin 1..Len(ret.value)

C6_SequentialSend ==
  /\ []SendOrder
  /\ (Encoded({"buildAndSend"}) /\ SenderNeverFails) ~> (pc = "resolved")

C6_Witness ==
  /\ Encoded({"buildAndSend"})
  /\ pc = "resolved"
  /\ calls = <<1, 2, 3>>
  /\ settled = 3

\* C7: when the sender fails on chunk k, buildAndSend rejects with that
\* failure, no chunk after k was handed to the sender, and the operation is
\* not resolved; it is resolved only when every chunk was sent.
C7_FailFast ==
  Encoded({"buildAndSend"}) =>
    /\ pc = "rejected" =>
         /\ reason = Throw("SendError", failAt)
         /\ calls = [k \in 1..failAt |-> k]
         /\ settled = failAt - 1
    /\ failAt \in 1..Len(ret.value) => pc # "resolved"
    /\ pc = "resolved" => settled = Len(ret.value)

C7_Witness ==
  /\ Encoded({"buildAndSend"})
  /\ Len(ret.value) = 3
  /\ failAt = 2
  /\ pc = "rejected"
  /\ calls = <<1, 2>>

\* C8: the type tag is the schema's explicit wire type when it has one, else
\* the entry of the name table; a schema with neither makes building the
\* message fail at once, so that no BuiltMessage without a type tag exists
\* and nothing is encoded from one.
ConstructionFailed == ret.kind = "throw" /\ ret.at = "constructor"

RangeErrorOnly(r) ==
  /\ r.kind = "throw"
  /\ r.error = "RangeError"
  /\ DOMAIN r = {"kind", "error", "at"}

C9_Underflow ==
  /\ op = "decode" =>
       IF Len(raw) >= 6 THEN dec.kind = "return" ELSE RangeErrorOnly(dec)
  /\ (op = "decodeChunked" /\ Len(raw) < 8) => RangeErrorOnly(dec)
  /\ op \in {"decode", "decodeChunked"} =>
       /\ readHeader(wrap(raw)).kind = (IF Len(raw) >= 6 THEN "return" ELSE "throw")
       /\ Len(raw) < 6 => RangeErrorOnly(readHeader(wrap(raw)))
       /\ Len(raw) < 8 => RangeErrorOnly(readHeaderChunked(wrap(raw)))

C9_Witness ==
  /\ op = "decode"
  /\ Len(raw) = 5
  /\ dec.kind = "throw"

\* C10: buildBuffers always returns at least one chunk; decodeChunked on the
\* first chunk returns the typeId and the payload length with the cursor at
\* offset 8, and from offset 8 on the concatenated chunks hold the payload
\* followed by zero bytes only.
C10_StreamRoundTrip ==
  /\ Encoded({"buildBuffers"}) => Len(ret.value) >= 1
  /\ op = "buildBuffers+decodeChunked" =>
       /\ dec.kind = "return"
       /\ dec.value.typeId = this.type
       /\ dec.value.length = Len(bytes)
       /\ dec.value.restBuffer.offset = 8
       /\ \A p \in 9..(Len(ret.value) * BUFFER_SIZE) :
            ChunkByte(ret.value, p) = IF p - 8 <= Len(bytes) THEN bytes[p - 8] ELSE 0

C10_Witness ==
  /\ op = "buildBuffers+decodeChunked"
  /\ Len(ret.value) = 3
  /\ dec.kind = "return"
  /\ dec.value.length = Len(bytes)
  /\ this.type = 65535

====
